---- MODULE Spec2Model ----
(***************************************************************************)
(* Model of xian-contracting-linter: the policy walker (linter.py, class   *)
(* Linter) and the boundary layer that runs it beside pyflakes, converts   *)
(* both outputs to records and deduplicates them (main.py, lint_code).     *)
(*                                                                         *)
(* A syntax tree is a record per node, with the fields the walker reads.   *)
(* A violation string "Line {n}<sep> {text}{detail}" is the record         *)
(* [lnum, sep, text, detail]; a message string is the record               *)
(* [pre, text, detail, loc] where pre is the number of a leading           *)
(* "Line {n} : " that stayed in the message (NoNum when there is none)     *)
(* and loc the number of a trailing " (<unknown>, line {n})".              *)
(***************************************************************************)
EXTENDS Integers, Sequences, FiniteSets, TLC

VARIABLES
    code,           \* the source handed to lint_code: a tree or a parse failure
    pyflakes_out,   \* the lines pyflakes prints for this source
    pc,             \* position of run_contracting_linter / lint_code
    idx,            \* index of the next statement of Module.body to visit
    linter,         \* the Linter instance's fields (WalkerState)
    exc,            \* the exception in flight in run_contracting_linter
    check_result,   \* what Linter.check returned
    contracting,    \* outcome of contracting_task
    pyflakes,       \* outcome of pyflakes_task
    all_errors,     \* results[0] + results[1]
    outcome,        \* what lint_code returned or raised
    history         \* per finished call: what Linter.check returned or raised

vars == <<code, pyflakes_out, pc, idx, linter, exc, check_result, contracting,
          pyflakes, all_errors, outcome, history>>

(***************************************************************************)
(* Bounds of the model.                                                    *)
(***************************************************************************)
MaxStmts == 2       \* statements in a module body
MaxLintStmts == 1   \* statements in a module body, where pyflakes reports
MaxFlakes == 2      \* lines printed by pyflakes
MaxCalls == 2       \* calls of lint_code on the same source

NoneVal == "<None>"     \* Python's None, where a string may stand
NoneNode == [kind |-> "None"]   \* Python's None, where a node may stand
Unbound == 0 - 1        \* the line held by a local variable not yet assigned
NoNum == 0 - 1          \* no number in this part of a message

(***************************************************************************)
(* Catalogs (linter.py).  The name tables are the slices of the catalogs   *)
(* over the identifiers that occur in the modelled trees.                  *)
(***************************************************************************)
EXPORT_DECORATOR_STRING == "export"
INIT_DECORATOR_STRING == "construct"
VALID_DECORATORS == {EXPORT_DECORATOR_STRING, INIT_DECORATOR_STRING}
ORM_CLASS_NAMES == {"Variable", "Hash", "ForeignVariable", "ForeignHash", "LogEvent"}
\* dir(builtins) - ALLOWED_BUILTINS, over the modelled identifiers
ILLEGAL_BUILTINS == {"eval", "float"}
\* stdlib and builtin module names, over the modelled module names
BuiltinModules == {"os"}
ALLOWED_AST_TYPES ==
    {"Module", "Call", "Attribute", "If", "FunctionDef", "Import", "ImportFrom",
     "Name", "Assign", "Pass", "Tuple", "Constant", "arg", "arguments", "keyword"}
ILLEGAL_AST_TYPES == {"ClassDef", "ImportFrom"}
ALLOWED_ANNOTATION_TYPES ==
    {"dict", "list", "str", "int", "float", "bool", "datetime.timedelta",
     "datetime.datetime", "Any"}

S1 == "S1- Illegal contracting syntax type used"
S2 == "S2- Illicit use of '_' before variable"
S3 == "S3- Illicit use of Nested imports"
S4 == "S4- ImportFrom compilation nodes not yet supported"
S6 == "S6- Illicit use of classes"
S8 == "S8- Invalid decorator used"
S9 == "S9- Multiple use of constructors detected"
S10 == "S10- Illicit use of multiple decorators"
S11 == "S11- Illicit keyword overloading for ORM assignments"
S12 == "S12- Multiple targets to ORM definition detected"
S13 == "S13- No valid contracting decorator found"
S14 == "S14- Illegal use of a builtin"
S15 == "S15- Reuse of ORM name definition in a function definition argument name"
S16 == "S16- Illegal argument annotation used"
S17 == "S17- No valid argument annotation found"
S18 == "S18- Illegal use of return annotation"
S19 == "S19- Illegal use of a nested function definition."

\* "Line {n}: " + text (+ detail): the form CONTRACTING_PATTERN matches
Tight(lnum, text, detail) ==
    [lnum |-> lnum, sep |-> ":", text |-> text, detail |-> detail]
\* "Line {n} : " + text (+ detail): a space before the colon
Loose(lnum, text, detail) ==
    [lnum |-> lnum, sep |-> " :", text |-> text, detail |-> detail]

\* v.startswith('_') or v.endswith('_'), over the modelled identifiers
HasUnderscore(v) == v \in {"_x", "x_"}

(***************************************************************************)
(* Syntax trees: the nodes ast.parse builds, with the fields read by the   *)
(* walker.                                                                 *)
(***************************************************************************)
Name(id, l) == [kind |-> "Name", id |-> id, lineno |-> l]
Attribute(value, attr, l) ==
    [kind |-> "Attribute", value |-> value, attr |-> attr, lineno |-> l]
Constant(l) == [kind |-> "Constant", lineno |-> l]
Keyword(a, l) == [kind |-> "keyword", arg |-> a, value |-> Constant(l)]
Call(func, keywords, l) ==
    [kind |-> "Call", func |-> func, keywords |-> keywords, lineno |-> l]
Tuple(elts, l) == [kind |-> "Tuple", elts |-> elts, lineno |-> l]
Arg(a, annotation, l) ==
    [kind |-> "arg", arg |-> a, annotation |-> annotation, lineno |-> l]
Pass(l) == [kind |-> "Pass", lineno |-> l]
\* a bare raise statement: ast.Raise with exc and cause None
RaiseStmt(l) == [kind |-> "Raise", lineno |-> l]
Import(n, l) == [kind |-> "Import", names |-> <<n>>, lineno |-> l]
ImportFrom(l) == [kind |-> "ImportFrom", lineno |-> l]
Assign(targets, value, l) ==
    [kind |-> "Assign", targets |-> targets, value |-> value, lineno |-> l]
If(body, l) == [kind |-> "If", test |-> Constant(l), body |-> body, lineno |-> l]
ClassDef(body, l) == [kind |-> "ClassDef", body |-> body, lineno |-> l]
FunctionDef(decorator_list, args, returns, body, l) ==
    [kind |-> "FunctionDef", decorator_list |-> decorator_list, args |-> args,
     returns |-> returns, body |-> body, lineno |-> l]
Module(body) == [kind |-> "Module", body |-> body]

(***************************************************************************)
(* WalkerState: the fields of a Linter instance, plus the exception that   *)
(* ended the call, if any.  set_repr is how this process prints the set    *)
(* VALID_DECORATORS.                                                       *)
(***************************************************************************)
NoExc == [type |-> "none", msg |-> ""]
AttributeError(what) ==
    [type |-> "AttributeError", msg |-> what \o " object has no attribute"]
UnboundLocalError(v) ==
    [type |-> "UnboundLocalError",
     msg |-> "cannot access local variable '" \o v
             \o "' where it is not associated with a value"]

Reset(w) ==
    [w EXCEPT !.violations = <<>>,
              !.is_one_export = FALSE,
              !.is_success = TRUE,
              !.constructor_visited = FALSE,
              !.orm_names = {},
              !.visited_args = {},
              !.return_annotation = {},
              !.arg_types = {}]

NewLinter ==
    [violations |-> <<>>, is_one_export |-> FALSE, is_success |-> TRUE,
     constructor_visited |-> FALSE, orm_names |-> {}, visited_args |-> {},
     return_annotation |-> {}, arg_types |-> {},
     set_repr |-> "", raised |-> NoExc]

Violate(w, v) ==
    [w EXCEPT !.violations = Append(@, v), !.is_success = FALSE]

Raise(w, e) == [w EXCEPT !.raised = e]

not_system_variable(w, v, lnum) ==
    IF HasUnderscore(v) THEN Violate(w, Loose(lnum, S2, " : " \o v)) ELSE w

ast_types(w, t, lnum) ==
    IF t.kind \notin ALLOWED_AST_TYPES
    THEN Violate(w, Loose(lnum, S1, " : " \o t.kind))
    ELSE w

RECURSIVE ImportsIn(_)
\* the direct statements of a body that are imports
ImportsIn(body) ==
    IF body = <<>> THEN 0
    ELSE (IF Head(body).kind \in {"ImportFrom", "Import"} THEN 1 ELSE 0)
         + ImportsIn(Tail(body))

RECURSIVE Repeat(_, _, _)
Repeat(w, v, n) == IF n = 0 THEN w ELSE Repeat(Violate(w, v), v, n - 1)

no_nested_imports(w, node) ==
    Repeat(w, Tight(node.lineno, S3, ""), ImportsIn(node.body))

RECURSIVE FunctionDefsIn(_)
FunctionDefsIn(body) ==
    IF body = <<>> THEN 0
    ELSE (IF Head(body).kind = "FunctionDef" THEN 1 ELSE 0)
         + FunctionDefsIn(Tail(body))

\* the child nodes in the order ast.NodeVisitor.generic_visit iterates them
\* (the node class's _fields); Load/Store contexts and operators carry no
\* position and trigger nothing, so they are left out
Children(node) ==
    CASE node.kind = "Module" -> node.body
      [] node.kind = "ClassDef" -> node.body
      [] node.kind = "If" -> <<node.test>> \o node.body
      [] node.kind = "Assign" -> node.targets \o <<node.value>>
      [] node.kind = "FunctionDef" ->
            <<[kind |-> "arguments", args |-> node.args]>> \o node.body
            \o node.decorator_list
            \o (IF node.returns = NoneNode THEN <<>> ELSE <<node.returns>>)
      [] node.kind = "arguments" -> node.args
      [] node.kind = "arg" ->
            IF node.annotation = NoneNode THEN <<>> ELSE <<node.annotation>>
      [] node.kind = "Call" -> <<node.func>> \o node.keywords
      [] node.kind = "keyword" -> <<node.value>>
      [] node.kind = "Attribute" -> <<node.value>>
      [] node.kind = "Tuple" -> node.elts
      [] OTHER -> <<>>

(***************************************************************************)
(* The visit methods.  An exception leaves the walker where it was raised: *)
(* once w.raised is set, nothing more is visited.                          *)
(***************************************************************************)
\* visit_Name, before its generic_visit
NameChecks(w, node) ==
    LET w1 == not_system_variable(w, node.id, node.lineno)
        w2 == IF node.id = "rt"
              THEN Violate(w1, Tight(node.lineno, S14, "")) ELSE w1
    IN IF node.id \in ILLEGAL_BUILTINS /\ node.id # "float"
       THEN Violate(w2, Tight(node.lineno, S14, "")) ELSE w2

\* visit_Attribute, before its generic_visit
AttributeChecks(w, node) ==
    LET w1 == not_system_variable(w, node.attr, node.lineno)
    IN IF node.attr = "rt"
       THEN Violate(w1, Tight(node.lineno, S14, "")) ELSE w1

\* visit_Import: one S14 per imported name found in self.builtins
ImportChecks(w, node) ==
    IF node.names[1] \in BuiltinModules
    THEN Violate(w, Tight(node.lineno, S14, "")) ELSE w

\* visit_Call, before its generic_visit
CallChecks(w, node) ==
    IF node.func.kind = "Name" /\ node.func.id \in ILLEGAL_BUILTINS
    THEN Violate(w, Tight(node.lineno, S14, "")) ELSE w

\* the names whose keyword overloading visit_Assign looks for
KeywordCheckedNames == {"Variable", "Hash", "LogEvent"}

KwArgs(call) == {call.keywords[i].arg : i \in 1..Len(call.keywords)}

\* the ORM branch of visit_Assign, entered when node.value.func.id is an
\* ORM class name
OrmAssignChecks(w, node) ==
    LET w1 == IF node.value.func.id \in KeywordCheckedNames
                 /\ ("contract" \in KwArgs(node.value)
                     \/ "name" \in KwArgs(node.value))
              THEN Violate(w, Tight(node.lineno, S11, "")) ELSE w
        w2 == IF (\E i \in 1..Len(node.targets) : node.targets[i].kind = "Tuple")
                 \/ node.value.kind = "Tuple"
              THEN Violate(w1, Tight(node.lineno, S12, "")) ELSE w1
    IN IF node.targets[1].kind = "Name"
       THEN [w2 EXCEPT !.orm_names = @ \cup {node.targets[1].id}]
       ELSE w2

\* visit_Assign, before its generic_visit
AssignChecks(w, node) ==
    LET w1 == IF node.value.kind = "Name"
                 /\ node.value.id \in {"Hash", "Variable", "LogEvent"}
              THEN Violate(w, Tight(node.lineno, S14, "")) ELSE w
    IN IF node.value.kind = "Call" /\ node.value.func.kind # "Attribute"
       THEN IF node.value.func.kind # "Name"
            THEN Raise(w1, AttributeError("'" \o node.value.func.kind \o "'"))
            ELSE IF node.value.func.id \in ORM_CLASS_NAMES
                 THEN OrmAssignChecks(w1, node)
                 ELSE w1
       ELSE w1

\* the decorator loop of visit_FunctionDef over ds, the rest of
\* node.decorator_list; st = [w, export_decorator]
RECURSIVE DecoratorLoop(_, _, _)
DecoratorLoop(st, ds, lineno) ==
    IF ds = <<>> THEN st
    ELSE LET d == Head(ds)
             w1 == IF d.id \notin VALID_DECORATORS
                   THEN Violate(st.w, Tight(lineno, S8,
                                            ": valid list: " \o st.w.set_repr))
                   ELSE st.w
             w2 == IF d.id = EXPORT_DECORATOR_STRING
                   THEN [w1 EXCEPT !.is_one_export = TRUE] ELSE w1
             w3 == IF d.id = INIT_DECORATOR_STRING
                   THEN [(IF w2.constructor_visited
                          THEN Violate(w2, Tight(lineno, S9, ""))
                          ELSE w2) EXCEPT !.constructor_visited = TRUE]
                   ELSE w2
         IN IF d.kind = "Name"      \* hasattr(d, "id")
            THEN DecoratorLoop(
                     [w |-> w3,
                      export_decorator |-> st.export_decorator
                                           \/ d.id = EXPORT_DECORATOR_STRING],
                     Tail(ds), lineno)
            ELSE DecoratorLoop(st, Tail(ds), lineno)

\* try: a.annotation.id  except AttributeError: a.annotation.value.id + '.'
\* + a.annotation.attr; [raised, t]
AnnotationSpelling(ann) ==
    IF ann.kind = "Name" THEN [raised |-> NoExc, t |-> ann.id]
    ELSE IF ann.kind = "Attribute"
         THEN IF ann.value.kind = "Name"
              THEN [raised |-> NoExc, t |-> ann.value.id \o "." \o ann.attr]
              ELSE [raised |-> AttributeError("'" \o ann.value.kind \o "'"),
                    t |-> NoneVal]
         ELSE [raised |-> AttributeError(IF ann = NoneNode THEN "'NoneType'"
                                         ELSE "'" \o ann.kind \o "'"),
               t |-> NoneVal]

\* the argument loop of visit_FunctionDef over as, the rest of
\* arguments.args
RECURSIVE ArgumentLoop(_, _, _, _)
ArgumentLoop(w, as, export_decorator, lineno) ==
    IF as = <<>> \/ w.raised # NoExc THEN w
    ELSE LET a == Head(as)
             w1 == [w EXCEPT !.visited_args = @ \cup {<<a.arg, lineno>>}]
             sp == AnnotationSpelling(a.annotation)
             w2 == IF ~export_decorator THEN w1
                   ELSE IF a.annotation = NoneNode
                        THEN [w1 EXCEPT !.arg_types = @ \cup {<<NoneVal, lineno>>}]
                        ELSE IF sp.raised # NoExc
                             THEN Raise(w1, sp.raised)
                             ELSE [w1 EXCEPT
                                      !.arg_types = @ \cup {<<sp.t, lineno>>}]
         IN ArgumentLoop(w2, Tail(as), export_decorator, lineno)

\* the return-annotation block of visit_FunctionDef for an exported
\* function: it reads a, the loop variable the argument loop left behind
ReturnsBlock(w, node) ==
    IF node.returns # NoneNode
    THEN IF node.args = <<>>
         THEN Raise(w, UnboundLocalError("a"))
         ELSE LET sp == AnnotationSpelling(node.args[Len(node.args)].annotation)
              IN IF sp.raised # NoExc
                 THEN Raise(w, sp.raised)
                 ELSE [w EXCEPT !.arg_types = @ \cup {<<sp.t, node.lineno>>}]
    ELSE [w EXCEPT !.return_annotation = @ \cup {<<NoneVal, node.lineno>>}]

\* visit_FunctionDef, before its generic_visit
FunctionDefChecks(w, node) ==
    LET n == Len(node.decorator_list)
        w1 == no_nested_imports(w, node)
        w2 == Repeat(w1, Tight(node.lineno, S19, ""), FunctionDefsIn(node.body))
        w3 == IF n > 1
              THEN Violate(w2, Tight(node.lineno, S10,
                       ": Detected: " \o ToString(n) \o " MAX limit: 1"))
              ELSE w2
        st == DecoratorLoop([w |-> w3, export_decorator |-> FALSE],
                            node.decorator_list, node.lineno)
        w4 == ArgumentLoop(st.w, node.args, st.export_decorator, node.lineno)
    IN IF w4.raised # NoExc \/ ~st.export_decorator THEN w4
       ELSE ReturnsBlock(w4, node)

\* generic_visit's own check, before it descends
GenericChecks(w, node) ==
    IF node.kind \in ILLEGAL_AST_TYPES
    THEN Violate(w, Tight(node.lineno, S1, "")) ELSE w

RECURSIVE visit(_, _), VisitEach(_, _)
\* generic_visit's descent: visit every child in order
VisitEach(w, nodes) ==
    IF nodes = <<>> \/ w.raised # NoExc THEN w
    ELSE VisitEach(visit(w, Head(nodes)), Tail(nodes))

generic_visit(w, node) == VisitEach(GenericChecks(w, node), Children(node))

\* NodeVisitor.visit: dispatch on the node's class to visit_<Class>, or to
\* generic_visit when the Linter defines none
visit(w, node) ==
    IF w.raised # NoExc THEN w
    ELSE CASE node.kind = "Name" -> generic_visit(NameChecks(w, node), node)
           [] node.kind = "Attribute" ->
                 generic_visit(AttributeChecks(w, node), node)
           [] node.kind = "Import" -> ImportChecks(w, node)
           [] node.kind = "ImportFrom" -> Violate(w, Tight(node.lineno, S4, ""))
           [] node.kind = "ClassDef" ->
                 generic_visit(Violate(w, Tight(node.lineno, S6, "")), node)
           [] node.kind = "Assign" ->
                 LET w1 == AssignChecks(w, node)
                 IN IF w1.raised # NoExc THEN w1 ELSE generic_visit(w1, node)
           [] node.kind = "Call" -> generic_visit(CallChecks(w, node), node)
           [] node.kind = "FunctionDef" ->
                 LET w1 == FunctionDefChecks(w, node)
                 IN IF w1.raised # NoExc THEN w1 ELSE generic_visit(w1, node)
           [] OTHER -> generic_visit(w, node)

(***************************************************************************)
(* _final_checks.  The three loops iterate Python sets, whose order the    *)
(* language leaves open (it follows the elements' hashes, and str hashes   *)
(* change from process to process): each loop takes the order as a         *)
(* sequence enumerating the set.                                           *)
(***************************************************************************)
Orders(S) ==
    {o \in [1..Cardinality(S) -> S] :
        \A i, j \in 1..Cardinality(S) : o[i] = o[j] => i = j}

\* for name, lineno in self.visited_args: ...; st = [w, lineno]
RECURSIVE OrmReuseLoop(_, _)
OrmReuseLoop(st, order) ==
    IF order = <<>> THEN st
    ELSE LET name == Head(order)[1]
             lineno == Head(order)[2]
         IN OrmReuseLoop(
                [w |-> IF name \in st.w.orm_names
                       THEN Violate(st.w, Tight(lineno, S15, ""))
                       ELSE st.w,
                 lineno |-> lineno],
                Tail(order))

annotation_types(w, t, lnum) ==
    IF t = NoneVal THEN Violate(w, Loose(lnum, S17, ""))
    ELSE IF t \notin ALLOWED_ANNOTATION_TYPES
         THEN Violate(w, Loose(lnum, S16, " : " \o t))
         ELSE w

check_return_types(w, t, lnum) ==
    IF t # NoneVal THEN Violate(w, Loose(lnum, S18, " : " \o t)) ELSE w

RECURSIVE AnnotationLoop(_, _)
AnnotationLoop(w, order) ==
    IF order = <<>> THEN w
    ELSE AnnotationLoop(annotation_types(w, Head(order)[1], Head(order)[2]),
                        Tail(order))

RECURSIVE ReturnLoop(_, _)
ReturnLoop(w, order) ==
    IF order = <<>> THEN w
    ELSE ReturnLoop(check_return_types(w, Head(order)[1], Head(order)[2]),
                    Tail(order))

\* if not self._is_one_export: the S13 violation at lineno, the variable the
\* first loop left behind
ExportCheck(w, lineno) ==
    IF w.is_one_export THEN w
    ELSE IF lineno = Unbound
         THEN Raise(w, UnboundLocalError("lineno"))
         ELSE Violate(w, Tight(lineno, S13, ""))

_final_checks(w, args_order, types_order, returns_order) ==
    LET st == OrmReuseLoop([w |-> w, lineno |-> Unbound], args_order)
        w1 == ExportCheck(st.w, st.lineno)
    IN IF w1.raised # NoExc THEN w1
       ELSE ReturnLoop(AnnotationLoop(w1, types_order), returns_order)

\* the return statement of check: the violations, or None on success
CheckValue(w) ==
    IF w.is_success = FALSE
    THEN [kind |-> "list", items |-> w.violations]
    ELSE NoneNode

(***************************************************************************)
(* The boundary layer (main.py).  A diagnostic record is a function whose  *)
(* domain is its keys: {"message"} or {"message", "line", "col"}.          *)
(***************************************************************************)
Msg(pre, text, detail, loc) ==
    [pre |-> pre, text |-> text, detail |-> detail, loc |-> loc]

\* str(e) of an exception raised outside the parser
ExcMsg(e) == Msg(NoNum, e.msg, "", NoNum)

\* re.sub of the trailing " (<unknown>, line N)"
standardize_error_message(message) == [message EXCEPT !.loc = NoNum]

\* bool(n) of an int
Truthy(n) == n # 0

\* [raised, value]: raised when a record read for "line" has no such key
is_duplicate_error(error1, error2) ==
    IF error1["message"] # error2["message"]
    THEN [raised |-> FALSE, value |-> FALSE]
    ELSE IF "line" \notin DOMAIN error1 \/ "line" \notin DOMAIN error2
         THEN [raised |-> TRUE, value |-> FALSE]
         ELSE IF Truthy(error1["line"]) # Truthy(error2["line"])
              THEN [raised |-> FALSE, value |-> FALSE]
              ELSE IF Truthy(error1["line"]) /\ Truthy(error2["line"])
                   THEN [raised |-> FALSE,
                         value |-> error1["line"] = error2["line"]
                                   /\ error1["col"] = error2["col"]]
                   ELSE [raised |-> FALSE, value |-> TRUE]

\* any(is_duplicate_error(error, existing) for existing in unique_errors):
\* the generator stops at the first True
RECURSIVE AnyDuplicate(_, _)
AnyDuplicate(error, unique_errors) ==
    IF unique_errors = <<>> THEN [raised |-> FALSE, value |-> FALSE]
    ELSE LET r == is_duplicate_error(error, Head(unique_errors))
         IN IF r.raised \/ r.value THEN r
            ELSE AnyDuplicate(error, Tail(unique_errors))

\* the loop of deduplicate_errors over the rest of errors;
\* [raised, errors]
RECURSIVE DedupLoop(_, _)
DedupLoop(unique_errors, errors) ==
    IF errors = <<>> THEN [raised |-> FALSE, errors |-> unique_errors]
    ELSE LET error == [Head(errors) EXCEPT
                          !["message"] = standardize_error_message(@)]
             r == AnyDuplicate(error, unique_errors)
         IN IF r.raised THEN [raised |-> TRUE, errors |-> unique_errors]
            ELSE DedupLoop(IF r.value THEN unique_errors
                           ELSE Append(unique_errors, error),
                           Tail(errors))

deduplicate_errors(errors) == DedupLoop(<<>>, errors)

\* any(pattern in message for pattern in whitelist_patterns), over the
\* modelled messages
Whitelisted(text) == text \in {"undefined name 'ctx'"}

\* a line of pyflakes' output: [match, line_num, col, text], match telling
\* whether PYFLAKES_PATTERN matches it; <<>> stands for None
parse_pyflakes_line(line) ==
    IF ~line.match THEN <<>>
    ELSE IF Whitelisted(line.text) THEN <<>>
         ELSE <<[message |-> Msg(NoNum, line.text, "", NoNum),
                 line |-> line.line_num - 1,
                 col |-> line.col - 1]>>

\* CONTRACTING_PATTERN matches "Line {n}:" only: no space before the colon
parse_contracting_line(violation) ==
    IF violation.sep = ":"
    THEN IF violation.lnum = 0
         THEN [message |-> Msg(NoNum, violation.text, violation.detail, NoNum)]
         ELSE [message |-> Msg(NoNum, violation.text, violation.detail, NoNum),
               line |-> violation.lnum - 1,
               col |-> 0]
    ELSE [message |-> Msg(violation.lnum, violation.text, violation.detail, NoNum)]

RECURSIVE ParseAll(_)
ParseAll(violations) ==
    IF violations = <<>> THEN <<>>
    ELSE <<parse_contracting_line(Head(violations))>> \o ParseAll(Tail(violations))

RECURSIVE FlakeErrors(_)
\* the loop of run_pyflakes over the output lines
FlakeErrors(lines) ==
    IF lines = <<>> THEN <<>>
    ELSE parse_pyflakes_line(Head(lines)) \o FlakeErrors(Tail(lines))

(***************************************************************************)
(* The inputs: sources as ast.parse sees them.  The statement at place i   *)
(* of a module body starts at line BaseLine(i); a decorated def stands one *)
(* line below each of its decorators, a body one line below its block.     *)
(***************************************************************************)
BaseLine(i) == 6 * i - 5

OrmCalls(l) ==
    {Call(Name(f, l), kws, l) :
        f \in ORM_CLASS_NAMES,
        kws \in {<<>>, <<Keyword("contract", l)>>, <<Keyword("name", l)>>}}

OtherValues(l) ==
    {Name("_x", l), Name("Hash", l),
     Call(Name("eval", l), <<>>, l),
     Call(Attribute(Name("rt", l), "Variable", l), <<Keyword("contract", l)>>, l),
     Call(Call(Name("f", l), <<>>, l), <<>>, l)}

Assigns(l) ==
    {Assign(<<Name("x", l)>>, v, l) : v \in OrmCalls(l) \cup OtherValues(l)}
    \cup {Assign(<<Tuple(<<Name("x", l), Name("y", l)>>, l)>>,
                 Call(Name("Hash", l), <<>>, l), l),
          Assign(<<Name("_x", l)>>, Name("_x", l), l)}

SimpleStmts(l) ==
    Assigns(l) \cup {Pass(l), Import("os", l), Import("currency", l), ImportFrom(l)}

\* bodies of a block whose header stands at line l
InnerBodies(l) ==
    {<<Pass(l + 1)>>,
     <<RaiseStmt(l + 1)>>,
     <<Import("currency", l + 1)>>,
     <<Assign(<<Name("_x", l + 1)>>, Name("_x", l + 1), l + 1)>>}

Bodies(l) ==
    InnerBodies(l)
    \cup {<<If(b, l + 1)>> : b \in {<<Import("currency", l + 2)>>}}
    \cup {<<ClassDef(b, l + 1)>> : b \in {<<Pass(l + 2)>>}}
    \cup {<<FunctionDef(<<>>, <<>>, NoneNode, b, l + 1)>> : b \in {<<Pass(l + 2)>>}}

DecoratorLists(l) ==
    {<<>>,
     <<Name("export", l)>>,
     <<Name("construct", l)>>,
     <<Name("other", l)>>,
     <<Name("export", l), Name("construct", l + 1)>>}

ArgLists(l) ==
    {<<>>,
     <<Arg("a", Name("int", l), l)>>,
     <<Arg("a", NoneNode, l)>>,
     <<Arg("x", Attribute(Name("datetime", l), "datetime", l), l)>>,
     <<Arg("a", Name("foo", l), l), Arg("b", Name("bar", l), l)>>}

Returns(l) == {NoneNode, Name("int", l)}

\* function definitions: every signature without a return annotation and
\* every exported signature with one, over a trivial body; and every body
\* under the plain signature and under an exported one-argument signature
FunctionDefs(l) ==
    UNION {{FunctionDef(ds, as, NoneNode, <<Pass(l + Len(ds) + 1)>>, l + Len(ds)) :
               as \in ArgLists(l + Len(ds))} :
           ds \in DecoratorLists(l)}
    \cup {FunctionDef(<<Name("export", l)>>, as, Name("int", l + 1),
                      <<Pass(l + 2)>>, l + 1) :
             as \in ArgLists(l + 1)}
    \cup {FunctionDef(<<>>, <<>>, NoneNode, b, l) : b \in Bodies(l)}
    \cup {FunctionDef(<<Name("export", l)>>, <<Arg("a", Name("int", l + 1), l + 1)>>,
                      NoneNode, b, l + 1) :
             b \in Bodies(l + 1)}

Blocks(l) ==
    {If(b, l) : b \in InnerBodies(l) \cup {<<ClassDef(<<Pass(l + 2)>>, l + 1)>>}}
    \cup {ClassDef(b, l) : b \in Bodies(l)}

Stmts(l) == SimpleStmts(l) \cup Blocks(l) \cup FunctionDefs(l)

RECURSIVE BodiesOf(_, _)
\* the module bodies of n statements, the first at place i
BodiesOf(i, n) ==
    IF n = 0 THEN {<<>>}
    ELSE {<<s>> \o rest : s \in Stmts(BaseLine(i)), rest \in BodiesOf(i + 1, n - 1)}

Trees(max) == {Module(b) : b \in UNION {BodiesOf(1, n) : n \in 0..max}}

\* the statements used where pyflakes is talkative: exported functions
\* whose walk yields none, one or several violations, and statements on
\* which the walk fails
LintStmts(l) ==
    {FunctionDef(<<Name("export", l)>>, <<Arg("a", Name("int", l + 1), l + 1)>>,
                 NoneNode, b, l + 1) :
        b \in InnerBodies(l + 1)}
    \cup {FunctionDef(<<Name("export", l), Name("construct", l + 1)>>,
                      <<Arg("a", Name("int", l + 2), l + 2)>>,
                      NoneNode, <<Import("currency", l + 3)>>, l + 2),
          FunctionDef(<<Name("export", l)>>, <<Arg("b", NoneNode, l + 1)>>,
                      NoneNode, <<Import("os", l + 2)>>, l + 1),
          ClassDef(<<Pass(l + 1)>>, l),
          Assign(<<Name("x", l)>>, Call(Name("eval", l), <<>>, l), l)}

RECURSIVE LintBodiesOf(_, _)
LintBodiesOf(i, n) ==
    IF n = 0 THEN {<<>>}
    ELSE {<<s>> \o rest :
             s \in LintStmts(BaseLine(i)), rest \in LintBodiesOf(i + 1, n - 1)}

LintTrees(max) == {Module(b) : b \in UNION {LintBodiesOf(1, n) : n \in 0..max}}

\* sources ast.parse rejects: SyntaxError with its lineno (NoNum for None)
\* and offset (0 for None or 0)
ParseFailures ==
    {[kind |-> "SyntaxError", lineno |-> l, offset |-> o] :
        l \in {1, 2}, o \in {0, 3}}
    \cup {[kind |-> "SyntaxError", lineno |-> NoNum, offset |-> 0]}

\* lines pyflakes prints: "<string>:{line}:{col}: {text}", and one the
\* pattern does not match
FlakeLines ==
    {[match |-> TRUE, line_num |-> 1, col |-> 1, text |-> "undefined name 'foo'"],
     [match |-> TRUE, line_num |-> 1, col |-> 5, text |-> "undefined name 'foo'"],
     [match |-> TRUE, line_num |-> 1, col |-> 1, text |-> "undefined name 'ctx'"],
     [match |-> TRUE, line_num |-> 2, col |-> 4, text |-> "invalid syntax"],
     [match |-> FALSE, line_num |-> 0, col |-> 0, text |-> "    ^"]}

RECURSIVE SeqsOf(_, _)
SeqsOf(S, n) ==
    IF n = 0 THEN {<<>>}
    ELSE {<<x>> \o rest : x \in S, rest \in SeqsOf(S, n - 1)}

\* what pyflakes does on a source: it prints up to max lines, or fails
PyflakesRuns(max) ==
    {[raises |-> FALSE, lines |-> ls] :
        ls \in UNION {SeqsOf(FlakeLines, n) : n \in 0..max}}
    \cup {[raises |-> TRUE, lines |-> <<>>]}

\* pyflakes finds nothing to report
SilentPyflakes == [raises |-> FALSE, lines |-> <<>>]

\* repr(VALID_DECORATORS): the two orders a set of two strings can print in
SetReprs == {"{'export', 'construct'}", "{'construct', 'export'}"}

(***************************************************************************)
(* The state machine: one call of lint_code, its two tasks interleaved.    *)
(***************************************************************************)
Pending == [status |-> "pending"]
Done(errors) == [status |-> "done", errors |-> errors]
\* the task raised LintingException(message); first: before the other task
\* had finished
Failed(message, first) ==
    [status |-> "raised", message |-> message, first |-> first]

Returned(errors) == [kind |-> "returned", errors |-> errors]

Start(c, out, h) ==
    /\ code = c
    /\ pyflakes_out = out
    /\ pc = "parse"
    /\ idx = 0
    /\ linter = NewLinter
    /\ exc = NoExc
    /\ check_result = [kind |-> "pending"]
    /\ contracting = Pending
    /\ pyflakes = Pending
    /\ all_errors = <<>>
    /\ outcome = [kind |-> "pending"]
    /\ history = h

Init ==
    \E c \in Trees(MaxStmts) \cup ParseFailures :
        Start(c, SilentPyflakes, <<>>)

InitLint ==
    \E c \in LintTrees(MaxLintStmts) \cup ParseFailures, out \in PyflakesRuns(MaxFlakes) :
        Start(c, out, <<>>)

\* run_contracting_linter: ast.parse(code), then Linter()
Parse ==
    /\ pc = "parse"
    /\ IF code.kind = "SyntaxError"
       THEN /\ exc' = [type |-> "SyntaxError", msg |-> "invalid syntax",
                       lineno |-> code.lineno, offset |-> code.offset]
            /\ pc' = "except"
            /\ history' = Append(history, [kind |-> "not called"])
            /\ UNCHANGED linter
       ELSE /\ linter' = NewLinter
            /\ pc' = "check"
            /\ UNCHANGED <<exc, history>>
    /\ UNCHANGED <<code, pyflakes_out, idx, check_result, contracting, pyflakes,
                   all_errors, outcome>>

\* Linter.check: _reset(); _functions is written by _collect_function_defs
\* and read by nothing, so it is not kept
BeginCheck ==
    /\ pc = "check"
    /\ linter' = Reset(linter)
    /\ idx' = 1
    /\ pc' = IF code.body = <<>> THEN "final" ELSE "visit"
    /\ UNCHANGED <<code, pyflakes_out, exc, check_result, contracting, pyflakes,
                   all_errors, outcome, history>>

\* the order this process prints VALID_DECORATORS in is fixed by its hash
\* seed; it is chosen when the first S8 message prints the set
PrintsSet(w) == \E i \in 1..Len(w.violations) : w.violations[i].text = S8

ReprChoices(w) == IF w.set_repr = "" THEN SetReprs ELSE {w.set_repr}

\* Linter.check: self.visit(ast_tree), one statement of Module.body per step
VisitStatement ==
    /\ pc = "visit"
    /\ \E r \in ReprChoices(linter) :
       LET v == visit([linter EXCEPT !.set_repr = r], code.body[idx])
           w == [v EXCEPT !.set_repr = IF PrintsSet(v) THEN r ELSE linter.set_repr]
       IN /\ linter' = w
          /\ IF w.raised # NoExc
             THEN /\ exc' = w.raised
                  /\ pc' = "except"
                  /\ history' = Append(history, [kind |-> "raised", exc |-> w.raised])
                  /\ UNCHANGED idx
             ELSE /\ idx' = idx + 1
                  /\ pc' = IF idx = Len(code.body) THEN "final" ELSE "visit"
                  /\ UNCHANGED <<exc, history>>
    /\ UNCHANGED <<code, pyflakes_out, check_result, contracting, pyflakes,
                   all_errors, outcome>>

\* Linter.check: _final_checks() and the return
FinishCheck ==
    /\ pc = "final"
    /\ \E ao \in Orders(linter.visited_args), to \in Orders(linter.arg_types),
          ro \in Orders(linter.return_annotation) :
          LET w == _final_checks(linter, ao, to, ro)
          IN /\ linter' = w
             /\ IF w.raised # NoExc
                THEN /\ exc' = w.raised
                     /\ pc' = "except"
                     /\ history' = Append(history,
                                          [kind |-> "raised", exc |-> w.raised])
                     /\ UNCHANGED check_result
                ELSE /\ check_result' = CheckValue(w)
                     /\ pc' = "convert"
                     /\ history' = Append(history, CheckValue(w))
                     /\ UNCHANGED exc
    /\ UNCHANGED <<code, pyflakes_out, idx, contracting, pyflakes, all_errors,
                   outcome>>

\* what run_contracting_linter returns for the value of check
ContractingErrors(result) ==
    IF result = NoneNode THEN <<>>
    ELSE IF result.items = <<>> THEN <<>> ELSE ParseAll(result.items)

\* run_contracting_linter, after check returned
Convert ==
    /\ pc = "convert"
    /\ contracting' = Done(ContractingErrors(check_result))
    /\ pc' = "await"
    /\ UNCHANGED <<code, pyflakes_out, idx, linter, exc, check_result, pyflakes,
                   all_errors, outcome, history>>

\* the except clause of run_contracting_linter
ExceptOutcome(e, first) ==
    IF e.type = "SyntaxError"
    THEN IF e.lineno # NoNum
         THEN Done(<<[message |-> Msg(NoNum, e.msg, "", e.lineno),
                      line |-> e.lineno - 1,
                      col |-> IF Truthy(e.offset) THEN e.offset - 1 ELSE 0]>>)
         ELSE Failed(ExcMsg(e), first)
    ELSE Failed(ExcMsg(e), first)

Except ==
    /\ pc = "except"
    /\ contracting' = ExceptOutcome(exc, pyflakes.status = "pending")
    /\ pc' = "await"
    /\ UNCHANGED <<code, pyflakes_out, idx, linter, exc, check_result, pyflakes,
                   all_errors, outcome, history>>

\* run_pyflakes, the other task of the gather
RunPyflakes ==
    /\ pyflakes.status = "pending"
    /\ pc \in {"parse", "check", "visit", "final", "convert", "except", "await"}
    /\ pyflakes' = IF pyflakes_out.raises
                   THEN Failed(Msg(NoNum, "pyflakes failed", "", NoNum),
                               contracting.status = "pending")
                   ELSE Done(FlakeErrors(pyflakes_out.lines))
    /\ UNCHANGED <<code, pyflakes_out, pc, idx, linter, exc, check_result,
                   contracting, all_errors, outcome, history>>

\* the merge with the two results in the other order
MergeContractingFirst(results) == results[2] \o results[1]

\* results[0] + results[1]; results = [pyflakes_task's, contracting_task's]
Merge(results) == results[1] \o results[2]

\* the message of the exception asyncio.gather raises: the first one raised
GatherMessage ==
    IF pyflakes.status = "raised" /\ (contracting.status # "raised" \/ pyflakes.first)
    THEN pyflakes.message
    ELSE contracting.message

\* lint_code: the gather has both results, or raised LintingException
Gather ==
    /\ pc = "await"
    /\ pyflakes.status # "pending"
    /\ IF pyflakes.status = "raised" \/ contracting.status = "raised"
       THEN /\ outcome' = Returned(<<[message |-> GatherMessage]>>)
            /\ pc' = "done"
            /\ UNCHANGED all_errors
       ELSE /\ all_errors' = Merge(<<pyflakes.errors, contracting.errors>>)
            /\ pc' = "dedup"
            /\ UNCHANGED outcome
    /\ UNCHANGED <<code, pyflakes_out, idx, linter, exc, check_result,
                   contracting, pyflakes, history>>

\* lint_code: return deduplicate_errors(all_errors); a KeyError is no
\* LintingException and leaves lint_code
Deduplicate ==
    /\ pc = "dedup"
    /\ LET r == deduplicate_errors(all_errors)
       IN outcome' = IF r.raised
                     THEN [kind |-> "raised", exc |-> "KeyError"]
                     ELSE Returned(r.errors)
    /\ pc' = "done"
    /\ UNCHANGED <<code, pyflakes_out, idx, linter, exc, check_result,
                   contracting, pyflakes, all_errors, history>>

\* the caller calls lint_code again on the same source
CallAgain ==
    /\ pc = "done"
    /\ Len(history) < MaxCalls
    /\ pc' = "parse"
    /\ idx' = 0
    /\ linter' = NewLinter
    /\ exc' = NoExc
    /\ check_result' = [kind |-> "pending"]
    /\ contracting' = Pending
    /\ pyflakes' = Pending
    /\ all_errors' = <<>>
    /\ outcome' = [kind |-> "pending"]
    /\ UNCHANGED <<code, pyflakes_out, history>>

Next ==
    \/ Parse
    \/ BeginCheck
    \/ VisitStatement
    \/ FinishCheck
    \/ Convert
    \/ Except
    \/ RunPyflakes
    \/ Gather
    \/ Deduplicate
    \/ CallAgain

Spec == Init /\ [][Next]_vars

SpecLint == InitLint /\ [][Next]_vars

(***************************************************************************)
(* Vocabulary of the properties.                                           *)
(***************************************************************************)
RECURSIVE StmtsIn(_)
\* the statements of a body, at any depth
StmtsIn(body) ==
    IF body = <<>> THEN {}
    ELSE LET s == Head(body)
         IN {s}
            \cup (IF s.kind \in {"If", "ClassDef", "FunctionDef"}
                  THEN StmtsIn(s.body) ELSE {})
            \cup StmtsIn(Tail(body))

IsTree == code.kind = "Module"

AllStmts == IF IsTree THEN StmtsIn(code.body) ELSE {}

Exported(f) ==
    /\ f.kind = "FunctionDef"
    /\ \E i \in 1..Len(f.decorator_list) :
          f.decorator_list[i].id = EXPORT_DECORATOR_STRING

\* the current call's Linter.check has ended, by return or by exception
CheckEnded == IsTree /\ pc \in {"convert", "except", "await", "dedup", "done"}

\* how it ended: [kind |-> "list", items], [kind |-> "None"] or
\* [kind |-> "raised", exc]
LastCheck == history[Len(history)]

CheckReturned == CheckEnded /\ LastCheck.kind \in {"list", "None"}

\* the violations Linter.check returned (none when it returned None)
Reported == IF CheckEnded /\ LastCheck.kind = "list" THEN LastCheck.items ELSE <<>>

ReportedAt(text, lnum) ==
    \E i \in 1..Len(Reported) :
        Reported[i].text = text /\ Reported[i].lnum = lnum

CountOf(text) ==
    Cardinality({i \in 1..Len(Reported) : Reported[i].text = text})

\* the traversal appended a violation of this rule to self._violations
Recorded(text) ==
    \E i \in 1..Len(linter.violations) : linter.violations[i].text = text

(***************************************************************************)
(* C1: lint_code never raises to its caller: whatever the source and       *)
(* whatever records the two checkers produce (message-only records with    *)
(* equal messages included), it returns a list of records.                 *)
(***************************************************************************)
C1_LintCodeNeverRaises == outcome.kind # "raised"

(***************************************************************************)
(* C2: on a tree in which no function definition carries the export        *)
(* decorator (trees without functions and trees whose functions take no    *)
(* arguments included), Linter.check completes and returns a list holding  *)
(* exactly one S13 violation.                                              *)
(***************************************************************************)
C2_ExactlyOneS13 ==
    (CheckEnded /\ ~(\E f \in AllStmts : Exported(f)))
        => (LastCheck.kind = "list" /\ CountOf(S13) = 1)

(***************************************************************************)
(* C3: on a source holding a class definition, at any depth and whatever   *)
(* else it holds, the result of the check holds at least one S6            *)
(* violation: the S6 violation recorded during the traversal is not lost   *)
(* before the result is returned.                                          *)
(***************************************************************************)
C3_ClassReported ==
    (CheckEnded /\ (\E c \in AllStmts : c.kind = "ClassDef") /\ Recorded(S6))
        => (LastCheck.kind = "list" /\ CountOf(S6) >= 1)

(***************************************************************************)
(* C4: the list lint_code builds before deduplication.                     *)
(***************************************************************************)
\* the lines of pyflakes that survive the pattern and the whitelist
Kept ==
    SelectSeq(pyflakes_out.lines, LAMBDA ln : ln.match /\ ~Whitelisted(ln.text))

\* the record was made from this line of pyflakes
FromFlake(rec, ln) ==
    /\ rec["message"].text = ln.text
    /\ "line" \in DOMAIN rec
    /\ rec["line"] = ln.line_num - 1
    /\ rec["col"] = ln.col - 1

\* what the policy engine produced, in its order: the violations check
\* returned, or the parser's one failure
Produced ==
    IF IsTree THEN Reported
    ELSE <<[lnum |-> code.lineno, text |-> "invalid syntax", detail |-> ""]>>

\* the record was made from this product of the policy engine
FromPolicy(rec, v) ==
    /\ rec["message"].text = v.text
    /\ rec["message"].detail = v.detail
    /\ IF "line" \in DOMAIN rec
       THEN rec["line"] = v.lnum - 1
       ELSE rec["message"].pre = v.lnum

\* C4 as claimed: all policy-engine records come first, then all filtered
\* pyflakes records, each group in the order its checker produced it
C4_PolicyFirst ==
    pc = "dedup" =>
        /\ Len(all_errors) = Len(Produced) + Len(Kept)
        /\ \A j \in 1..Len(Produced) : FromPolicy(all_errors[j], Produced[j])
        /\ \A i \in 1..Len(Kept) : FromFlake(all_errors[Len(Produced) + i], Kept[i])

\* C4 as amended: all filtered pyflakes records come first, then all
\* policy-engine records, each group in the order its checker produced it
C4_PyflakesFirst ==
    pc = "dedup" =>
        /\ Len(all_errors) = Len(Kept) + Len(Produced)
        /\ \A i \in 1..Len(Kept) : FromFlake(all_errors[i], Kept[i])
        /\ \A j \in 1..Len(Produced) : FromPolicy(all_errors[Len(Kept) + j], Produced[j])

\* a merge of two pyflakes records that differ and two policy records that
\* differ
C4_Witness ==
    /\ pc = "dedup"
    /\ Len(Kept) >= 2 /\ Kept[1] # Kept[2]
    /\ Len(Produced) >= 2 /\ Produced[1] # Produced[2]

(***************************************************************************)
(* C5: deduplicate_errors treats two records as duplicates exactly when    *)
(* message, line and column are all equal: its output keeps one record per *)
(* distinct triple, in first-seen order, and drops no record that differs  *)
(* from every earlier one (records on line 0 that differ in column         *)
(* included).  Stated for the calls that return.                           *)
(***************************************************************************)
Standardized(errors) ==
    [i \in 1..Len(errors) |->
        [errors[i] EXCEPT !["message"] = standardize_error_message(@)]]

\* the records that differ from every earlier record, in order
FirstSeen(errors) ==
    LET keep == {i \in 1..Len(errors) : \A j \in 1..(i - 1) : errors[j] # errors[i]}
        RECURSIVE Pick(_)
        Pick(i) == IF i > Len(errors) THEN <<>>
                   ELSE (IF i \in keep THEN <<errors[i]>> ELSE <<>>) \o Pick(i + 1)
    IN Pick(1)

C5_DuplicatesAreEqualTriples ==
    (pc = "done" /\ pyflakes.status = "done" /\ contracting.status = "done"
     /\ outcome.kind = "returned")
        => outcome.errors = FirstSeen(Standardized(all_errors))

(***************************************************************************)
(* C6: every violation the walker emits for a node at line n >= 1,         *)
(* whichever rule produced it, becomes a record with line n - 1 and a      *)
(* zero-based column; a record has no line and col only when the           *)
(* violation's position is 0.                                              *)
(***************************************************************************)
C6_EveryRecordPositioned ==
    (CheckEnded /\ LastCheck.kind = "list" /\ contracting.status = "done")
        => /\ Len(contracting.errors) = Len(Reported)
           /\ \A i \in 1..Len(Reported) :
                 Reported[i].lnum >= 1 =>
                    /\ "line" \in DOMAIN contracting.errors[i]
                    /\ contracting.errors[i]["line"] = Reported[i].lnum - 1
                    /\ contracting.errors[i]["col"] = 0

(***************************************************************************)
(* C7: for every assignment whose right-hand side is a direct call to any  *)
(* of the five state-storage constructors with a keyword contract or name, *)
(* Linter.check reports S11 at the assignment's line.  Stated for the      *)
(* calls of check that return.                                             *)
(***************************************************************************)
Overloads(s) ==
    /\ s.kind = "Assign"
    /\ s.value.kind = "Call"
    /\ s.value.func.kind = "Name"
    /\ s.value.func.id \in ORM_CLASS_NAMES
    /\ KwArgs(s.value) \cap {"contract", "name"} # {}

C7_OverloadReported ==
    CheckReturned =>
        \A s \in AllStmts : Overloads(s) => ReportedAt(S11, s.lineno)

(***************************************************************************)
(* C8: for every import that stands in the body of a nested block (a       *)
(* conditional or a function), Linter.check reports S3 at the line of the  *)
(* block that holds the import.  Stated for the calls of check that        *)
(* return.                                                                 *)
(***************************************************************************)
C8_NestedImportReported ==
    CheckReturned =>
        \A b \in AllStmts :
            (b.kind \in {"If", "FunctionDef"} /\ ImportsIn(b.body) > 0)
                => ReportedAt(S3, b.lineno)

(***************************************************************************)
(* C9: two calls of Linter.check, each from fresh state, on the same tree  *)
(* return the same violations in the same order, those appended by         *)
(* _final_checks included: their order does not depend on the iteration    *)
(* order of visited_args, arg_types and return_annotation.                 *)
(***************************************************************************)
AppendedByFinalChecks(result) ==
    SelectSeq(result.items, LAMBDA v : v.text \in {S13, S15, S16, S17, S18})

C9_SameOrderTwice ==
    (Len(history) = 2 /\ history[1].kind = "list" /\ history[2].kind = "list")
        => AppendedByFinalChecks(history[1]) = AppendedByFinalChecks(history[2])

(***************************************************************************)
(* C10: for every exported function definition with a return annotation,   *)
(* with or without arguments, Linter.check completes and reports S18 for   *)
(* that function; for an exported function without a return annotation it  *)
(* reports no S18.                                                         *)
(***************************************************************************)
C10_ReturnAnnotationReported ==
    CheckEnded =>
        \A f \in AllStmts :
            Exported(f) =>
                IF f.returns # NoneNode
                THEN LastCheck.kind = "list" /\ ReportedAt(S18, f.lineno)
                ELSE ~ReportedAt(S18, f.lineno)

(***************************************************************************)
(* C11: for every node the traversal visits, at any depth, whose kind is   *)
(* not in ALLOWED_AST_TYPES, Linter.check reports S1 at the node's line    *)
(* (for the kinds in ILLEGAL_AST_TYPES and for every other kind outside    *)
(* the allow-set).  Stated for the calls of check that return.             *)
(***************************************************************************)
RECURSIVE NodesUnder(_)
\* a node and the nodes generic_visit reaches below it
NodesUnder(node) ==
    {node} \cup UNION {NodesUnder(Children(node)[i]) : i \in 1..Len(Children(node))}

VisitedNodes == IF IsTree THEN NodesUnder(code) ELSE {}

C11_DisallowedKindReported ==
    CheckReturned =>
        \A n \in VisitedNodes :
            n.kind \notin ALLOWED_AST_TYPES => ReportedAt(S1, n.lineno)

====
